---- MODULE Spec2Model ----
(***************************************************************************)
(* A model of maup: spatial index, intersections, adjacencies, assignment, *)
(* proration, topology repair and the progress-bar switch.                 *)
(*                                                                         *)
(* Geometry.  The geometric primitives (shapely / geopandas) are modelled  *)
(* on a square grid of GridN x GridN unit faces.  The plane is the cell    *)
(* complex of that grid in doubled coordinates (a, b), 0 <= a, b <= 2N:    *)
(* a cell is a face when a and b are odd, an edge when exactly one is odd, *)
(* a vertex when both are even.  A cell (a, b) is the integer a * K + b.   *)
(* A geometry is a closed set of cells; a polygon or multipolygon is the   *)
(* closure of a set of faces.  Intersection of closed sets is set          *)
(* intersection, so two polygons may meet in faces (an overlap), in edges  *)
(* (a shared border) or in a single vertex (a corner contact).             *)
(*                                                                         *)
(* Numbers.  Areas and lengths are integers; ratios and thresholds are     *)
(* exact fractions <<num, den>> compared by cross-multiplication.          *)
(***************************************************************************)
EXTENDS Integers, Sequences, FiniteSets, TLC

VARIABLES
    enabled,         \* ProgressBar.enabled
    previous_value,  \* ProgressBar._previous_value
    blocks,          \* the open `with progress():` blocks, innermost last; each
                     \* entry is the value `enabled` had just before its __enter__
    raising,         \* an exception is propagating out of the open blocks
    shown,           \* number of tqdm bars created so far
    geometries,      \* the collection given to adjacencies / close_gaps / resolve_overlaps
    sources,         \* first collection of intersections / assign / absorb_by_shared_perimeter
    targets,         \* second collection of the same calls
    relationship,    \* prorate: the index rows of the relationship
    data,            \* prorate: the data series (source id -> value)
    weights,         \* prorate / normalize: the weight series (row -> weight)
    stamp,           \* the `.index` attribute stamped on the input geometry instances
    call,            \* the last library call and its arguments
    result           \* what that call returned or raised

vars == <<enabled, previous_value, blocks, raising, shown, geometries, sources,
          targets, relationship, data, weights, stamp, call, result>>

progressVars == <<enabled, previous_value, blocks, raising, shown>>
inputVars == <<geometries, sources, targets, relationship, data, weights>>

-----------------------------------------------------------------------------
(* Bounds *)

GridN == 3
MaxDepth == 4
MaxShown == 4
MaxGeoms == 3
MaxOverlay == 2
MaxRows == 3

-----------------------------------------------------------------------------
(* The cell complex *)

K == 2 * GridN + 1
ax(c) == c \div K
ay(c) == c % K
IsFace(c) == ax(c) % 2 = 1 /\ ay(c) % 2 = 1
IsEdge(c) == (ax(c) % 2) # (ay(c) % 2)

\* the face with lower-left corner (x, y)
F(x, y) == (2 * x + 1) * K + (2 * y + 1)
AllFaces == {F(x, y) : x \in 0 .. (GridN - 1), y \in 0 .. (GridN - 1)}

Faces(g) == {c \in g : IsFace(c)}
\* the closed polygon (or multipolygon) covering a set of faces
Cl(fs) == UNION {{f + da * K + db : da \in -1 .. 1, db \in -1 .. 1} : f \in fs}
\* the rectangle of faces [x0, x1] x [y0, y1]
Rect(x0, y0, x1, y1) == Cl({F(x, y) : x \in x0 .. x1, y \in y0 .. y1})

SetMin(S) == CHOOSE m \in S : \A x \in S : m <= x
SetMax(S) == CHOOSE m \in S : \A x \in S : m >= x

\* the two faces an edge separates (those of them that exist)
EdgeFaces(e) == IF ax(e) % 2 = 0 THEN {e - K, e + K} \cap AllFaces
                ELSE {e - 1, e + 1} \cap AllFaces

\* the faces next to a face across an edge
FaceNbrs(f) == {f - 2 * K, f + 2 * K, f - 2, f + 2} \cap AllFaces
BorderFaces == {F(x, y) : x \in {0, GridN - 1}, y \in 0 .. (GridN - 1)} \cup
               {F(x, y) : x \in 0 .. (GridN - 1), y \in {0, GridN - 1}}

-----------------------------------------------------------------------------
(* The geometric primitives the code calls (shapely / geopandas), on cells *)

\* a missing geometry (None / NaN), distinct from every set of cells
NoGeometry == {-1}
IsNA(g) == g = NoGeometry

IsEmpty(g) == g = {}
Area(g) == Cardinality(Faces(g))
\* .length: the perimeter of the polygonal part plus the length of the lines
Length(g) == Cardinality({e \in g : IsEdge(e) /\ Cardinality(EdgeFaces(e) \cap g) <= 1})
Intersection(g, h) == g \cap h
Union(g, h) == g \cup h
\* polygon difference: the closure of what is left of g's faces
Difference(g, h) == Cl(Faces(g) \ Faces(h))
\* buffer(0): keeps the polygonal part only; lines and points buffer to an empty polygon
Buffer0(g) == Cl(Faces(g))
\* prepared(container).covers(g)
Covers(container, g) == g # {} /\ g \subseteq container
\* the bounding boxes (extents) of g and h intersect: what STRtree.query tests
BBoxIntersects(g, h) ==
    /\ g # {} /\ h # {}
    /\ SetMin({ax(c) : c \in g}) <= SetMax({ax(c) : c \in h})
    /\ SetMin({ax(c) : c \in h}) <= SetMax({ax(c) : c \in g})
    /\ SetMin({ay(c) : c \in g}) <= SetMax({ay(c) : c \in h})
    /\ SetMin({ay(c) : c \in h}) <= SetMax({ay(c) : c \in g})

\* the faces of `allowed` reachable from S across edges
RECURSIVE Grow(_, _)
Grow(S, allowed) ==
    LET S2 == S \cup {f \in allowed : FaceNbrs(f) \cap S # {}}
    IN IF S2 = S THEN S ELSE Grow(S2, allowed)

\* the edge-connected components of a set of faces, as a set of face sets
RECURSIVE Components(_)
Components(fs) ==
    IF fs = {} THEN {}
    ELSE LET comp == Grow({SetMin(fs)}, fs)
         IN {comp} \cup Components(fs \ comp)

\* the interior rings of one polygon (an edge-connected face set), each filled:
\* the components of its complement that do not reach the outside
PolygonHoles(poly) ==
    LET rest == AllFaces \ poly
        outside == Grow(BorderFaces \cap rest, rest)
    IN Components(rest \ outside)

\* ascending sequence of a finite set of integers
RECURSIVE SortInts(_)
SortInts(S) == IF S = {} THEN <<>>
               ELSE LET m == SetMin(S) IN <<m>> \o SortInts(S \ {m})

\* lexicographic order on pairs of integers
PairLt(p, q) == p[1] < q[1] \/ (p[1] = q[1] /\ p[2] < q[2])

RECURSIVE SeqSum(_)
SeqSum(s) == IF s = <<>> THEN 0 ELSE Head(s) + SeqSum(Tail(s))

RECURSIVE Concat(_)
Concat(ss) == IF ss = <<>> THEN <<>> ELSE Head(ss) \o Concat(Tail(ss))

Range(s) == {s[k] : k \in DOMAIN s}

-----------------------------------------------------------------------------
(* Values shared by every specification *)

NoCall == [op |-> "none"]
NoResult == [kind |-> "none"]
EmptyCollection == [rows |-> <<>>, crs |-> "epsg:1"]

ProgressIdle ==
    /\ enabled = FALSE
    /\ previous_value = FALSE
    /\ blocks = <<>>
    /\ raising = FALSE
    /\ shown = 0

NoInputs ==
    /\ geometries = EmptyCollection
    /\ sources = EmptyCollection
    /\ targets = EmptyCollection
    /\ relationship = <<>>
    /\ data = <<>>
    /\ weights = <<>>

-----------------------------------------------------------------------------
(* progress_bar.py: the process-wide ProgressBar instance `progress` *)

\* ProgressBar.__init__
ProgressInit ==
    /\ ProgressIdle
    /\ NoInputs
    /\ stamp = <<>>
    /\ call = NoCall
    /\ result = NoResult

\* ProgressBar.__enter__: a `with progress():` block is entered
Enter ==
    /\ ~raising
    /\ Len(blocks) < MaxDepth
    /\ previous_value' = enabled
    /\ enabled' = TRUE
    /\ blocks' = Append(blocks, enabled)
    /\ UNCHANGED <<raising, shown>>
    /\ UNCHANGED <<inputVars, stamp, call, result>>

\* ProgressBar.__exit__ as the body of the innermost block ends normally
ExitRestores == previous_value
Exit ==
    /\ ~raising
    /\ blocks # <<>>
    /\ enabled' = ExitRestores
    /\ blocks' = SubSeq(blocks, 1, Len(blocks) - 1)
    /\ UNCHANGED <<previous_value, raising, shown>>
    /\ UNCHANGED <<inputVars, stamp, call, result>>

\* the body of the innermost block raises
RaiseInBlock ==
    /\ ~raising
    /\ blocks # <<>>
    /\ raising' = TRUE
    /\ UNCHANGED <<enabled, previous_value, blocks, shown>>
    /\ UNCHANGED <<inputVars, stamp, call, result>>

\* ProgressBar.__exit__(exc_type, exc, tb): same body, the exception goes on
ExitOnError ==
    /\ raising
    /\ blocks # <<>>
    /\ enabled' = ExitRestores
    /\ blocks' = SubSeq(blocks, 1, Len(blocks) - 1)
    /\ UNCHANGED <<previous_value, raising, shown>>
    /\ UNCHANGED <<inputVars, stamp, call, result>>

\* the caller catches the exception (around the block that was just left)
Catch ==
    /\ raising
    /\ raising' = FALSE
    /\ UNCHANGED <<enabled, previous_value, blocks, shown>>
    /\ UNCHANGED <<inputVars, stamp, call, result>>

\* `maup.progress.enabled = b`, outside every block
SetEnabled ==
    /\ ~raising
    /\ blocks = <<>>
    /\ \E b \in BOOLEAN : enabled' = b
    /\ UNCHANGED <<previous_value, blocks, raising, shown>>
    /\ UNCHANGED <<inputVars, stamp, call, result>>

\* ProgressBar.__call__(generator, total): a tqdm bar only when enabled
ShownAfter(n) == IF ~enabled THEN shown
                 ELSE IF shown + n <= MaxShown THEN shown + n ELSE MaxShown
Wrap ==
    /\ ~raising
    /\ shown < MaxShown
    /\ shown' = ShownAfter(1)
    /\ UNCHANGED <<enabled, previous_value, blocks, raising>>
    /\ UNCHANGED <<inputVars, stamp, call, result>>

ProgressNext == Enter \/ Exit \/ RaiseInBlock \/ ExitOnError \/ Catch \/ SetEnabled \/ Wrap

SpecProgress == ProgressInit /\ [][ProgressNext]_vars

-----------------------------------------------------------------------------
(* Geometry collections (GeoSeries): rows in order, each an identifier, the *)
(* geometry instance (obj) and its shape; one CRS tag per collection.       *)

Row(i, o, g) == [id |-> i, obj |-> o, geom |-> g]
IdsOf(coll) == {coll.rows[k].id : k \in DOMAIN coll.rows}
ObjsOf(coll) == {coll.rows[k].obj : k \in DOMAIN coll.rows}
LookUp(coll, i) == (CHOOSE k \in DOMAIN coll.rows : coll.rows[k].id = i)
GeomOf(coll, i) == coll.rows[LookUp(coll, i)].geom

\* a geometry instance that no index has stamped
NoStamp == -1
\* instances created inside a call (intersections, holes, ...) are fresh
FreshObj(k) == 100 + k

\* the identifier sequences of the input collections: the labels are not the
\* positions 0 .. n-1, and both ascending and descending orders occur
IdOrders(n) == {[k \in 1 .. n |-> 10 + k], [k \in 1 .. n |-> 11 + n - k]}

\* every collection of least .. n geometries over `shapes`, instance k being
\* objBase + k
Collections(shapes, least, n, objBase, crss) ==
    UNION {{[rows |-> [k \in 1 .. m |-> Row(ids[k], objBase + k, gs[k])], crs |-> c] :
               gs \in [1 .. m -> shapes], ids \in IdOrders(m), c \in crss}
           : m \in least .. n}

UnstampedInputs(colls) ==
    [o \in UNION {ObjsOf(c) : c \in colls} |-> NoStamp]

-----------------------------------------------------------------------------
(* indexed_geometries.py: IndexedGeometries *)

\* __init__: stamps `.index` on every instance of the collection, in order
\* (a later row sharing the instance overwrites the stamp)
StampAll(st, coll) ==
    [o \in DOMAIN st \cup ObjsOf(coll) |->
        IF o \in ObjsOf(coll)
        THEN coll.rows[SetMax({k \in DOMAIN coll.rows : coll.rows[k].obj = o})].id
        ELSE st[o]]

\* the stamps kept on the given (input) instances
KeepStamps(st, objs) == [o \in objs |-> st[o]]

\* query: the instances whose extent meets the extent of `geometry` (STRtree),
\* mapped through their stamps and looked up by label in the collection
Query(coll, st, geometry) ==
    LET hits == SelectSeq(coll.rows, LAMBDA r : BBoxIntersects(r.geom, geometry))
        labels == [k \in DOMAIN hits |-> st[hits[k].obj]]
    IN Concat([k \in DOMAIN labels |->
                  SelectSeq(coll.rows, LAMBDA r : r.id = labels[k])])

\* intersections: the nonempty intersections of the candidates with `geometry`
IndexedIntersections(coll, st, geometry) ==
    LET cand == Query(coll, st, geometry)
        inters == [k \in DOMAIN cand |->
                      [id |-> cand[k].id, geom |-> Intersection(cand[k].geom, geometry)]]
    IN SelectSeq(inters, LAMBDA r : ~IsEmpty(r.geom))

\* covered_by: the candidates that the container covers
CoveredBy(coll, st, container) ==
    SelectSeq(Query(coll, st, container), LAMBDA r : Covers(container, r.geom))

-----------------------------------------------------------------------------
(* adjacencies.py *)

\* the warnings a call signalled: the pairs named by an OverlapWarning and the
\* identifiers named by an IslandWarning (empty: that warning was not signalled)
Warnings(pairs, ids) == [OverlapWarning |-> pairs, IslandWarning |-> ids]
NoWarnings == Warnings({}, {})
Ok(v, ws) == [kind |-> "ok", error |-> "", value |-> v, warnings |-> ws]
Raise(e) == [kind |-> "raise", error |-> e, value |-> <<>>, warnings |-> NoWarnings]

\* a variant that keeps the candidates on both sides of i
OtherCandidates(possible, i) == SelectSeq(possible, LAMBDA r : r.id # i)

\* the candidates of geometry i that iter_adjacencies keeps
LaterCandidates(possible, i) == SelectSeq(possible, LAMBDA r : r.id > i)

\* iter_adjacencies: everything the generator yields, in order
IterAdjacencies(coll) ==
    LET st == StampAll(<<>>, coll)
        yields(k) ==
            LET i == coll.rows[k].id
                geometry == coll.rows[k].geom
                possible == LaterCandidates(Query(coll, st, geometry), i)
                inters == [m \in DOMAIN possible |->
                              [key |-> <<i, possible[m].id>>,
                               geom |-> Intersection(possible[m].geom, geometry)]]
            IN SelectSeq(inters, LAMBDA r : ~IsEmpty(r.geom))
    IN Concat([k \in DOMAIN coll.rows |-> yields(k)])

KeysOf(rel) == {rel[k].key : k \in DOMAIN rel}
IdsInPairs(rel) == {rel[k].key[1] : k \in DOMAIN rel} \cup {rel[k].key[2] : k \in DOMAIN rel}

AdjacencyTypes == {"rook", "queen", "bishop"}

\* rook read as "the two geometries overlap"
KeptForOverlap(inters, adjacency_type) ==
    IF adjacency_type = "rook"
    THEN SelectSeq(inters, LAMBDA r : Area(r.geom) > 0)
    ELSE inters

\* the rows adjacencies keeps for the given kind
KeptForKind(inters, adjacency_type) ==
    IF adjacency_type = "rook"
    THEN SelectSeq(inters, LAMBDA r : Length(r.geom) > 0)
    ELSE inters

\* the identifiers adjacencies reports as islands
Islands(coll, inters) == IdsOf(coll) \ IdsInPairs(inters)

\* adjacencies(geometries, adjacency_type, warn_for_overlaps, warn_for_islands)
AdjacenciesOf(coll, adjacency_type, warn_for_overlaps, warn_for_islands) ==
    IF adjacency_type \notin {"rook", "queen"} THEN Raise("ValueError")
    ELSE LET pairs == IterAdjacencies(coll)
         IN \* index, geoms = zip(*pairs): nothing to unpack when no pair was yielded
            IF pairs = <<>> THEN Raise("ValueError")
            ELSE LET inters == KeptForKind(pairs, adjacency_type)
                     overlaps == SelectSeq(inters, LAMBDA r : Area(r.geom) > 0)
                     islands == Islands(coll, inters)
                     w1 == IF warn_for_overlaps /\ Len(overlaps) > 0
                           THEN KeysOf(overlaps) ELSE {}
                     w2 == IF warn_for_islands /\ Cardinality(islands) > 0
                           THEN islands ELSE {}
                 IN Ok(inters, Warnings(w1, w2))

\* the shapes of the adjacency inputs: two 2x2 blocks overlapping in the centre
\* face, the corner faces, a domino and the bottom row
AdjShapes == {Rect(0, 0, 1, 1), Rect(1, 1, 2, 2), Rect(2, 0, 2, 0),
              Rect(0, 0, 0, 0), Rect(1, 1, 2, 1), Rect(0, 2, 0, 2)}
AdjInputs == Collections(AdjShapes, 1, MaxGeoms, 0, {"epsg:1"})

AdjacencyInit ==
    /\ ProgressIdle
    /\ geometries \in AdjInputs
    /\ sources = EmptyCollection
    /\ targets = EmptyCollection
    /\ relationship = <<>> /\ data = <<>> /\ weights = <<>>
    /\ stamp = UnstampedInputs({geometries})
    /\ call = NoCall
    /\ result = NoResult

\* a caller iterates iter_adjacencies(geometries) to the end
CallIterAdjacencies ==
    /\ call = NoCall
    /\ call' = [op |-> "iter_adjacencies"]
    /\ result' = Ok(IterAdjacencies(geometries), NoWarnings)
    /\ stamp' = KeepStamps(StampAll(stamp, geometries), DOMAIN stamp)
    /\ shown' = ShownAfter(1)
    /\ UNCHANGED <<enabled, previous_value, blocks, raising, inputVars>>

CallAdjacencies ==
    \E t \in AdjacencyTypes, wo \in BOOLEAN, wi \in BOOLEAN :
        /\ call = NoCall
        /\ call' = [op |-> "adjacencies", adjacency_type |-> t,
                    warn_for_overlaps |-> wo, warn_for_islands |-> wi]
        /\ result' = AdjacenciesOf(geometries, t, wo, wi)
        /\ stamp' = IF t \in {"rook", "queen"}
                    THEN KeepStamps(StampAll(stamp, geometries), DOMAIN stamp)
                    ELSE stamp
        /\ shown' = IF t \in {"rook", "queen"} THEN ShownAfter(1) ELSE shown
        /\ UNCHANGED <<enabled, previous_value, blocks, raising, inputVars>>

AdjacencyNext == CallIterAdjacencies \/ CallAdjacencies

SpecAdjacency == AdjacencyInit /\ [][AdjacencyNext]_vars

-----------------------------------------------------------------------------
(* crs.py, indices.py, intersections.py *)

\* require_same_crs: the guard the decorator runs before the wrapped function
SameCrs(geoms1, geoms2) == geoms1.crs = geoms2.crs

\* get_geometries_with_range_index: same instances, labels 0 .. n-1
WithRangeIndex(coll) ==
    [rows |-> [k \in DOMAIN coll.rows |->
                  Row(k - 1, coll.rows[k].obj, coll.rows[k].geom)],
     crs |-> coll.crs]

HasMissing(coll) == \E k \in DOMAIN coll.rows : IsNA(coll.rows[k].geom)

\* a relation row: key (source, target) and a geometry
RelRow(sid, tid, g) == [key |-> <<sid, tid>>, geom |-> g]

\* stable insertion of a row into a sequence sorted by key
RECURSIVE InsertByKey(_, _)
InsertByKey(sorted, r) ==
    IF sorted = <<>> THEN <<r>>
    ELSE IF PairLt(r.key, Head(sorted).key) THEN <<r>> \o sorted
    ELSE <<Head(sorted)>> \o InsertByKey(Tail(sorted), r)

\* sort_index: rows in ascending (source, target) order, equal keys in arrival order
RECURSIVE SortByKey(_)
SortByKey(rel) ==
    IF rel = <<>> THEN <<>>
    ELSE InsertByKey(SortByKey(SubSeq(rel, 1, Len(rel) - 1)), rel[Len(rel)])

\* IndexedGeometries.enumerate_intersections over the reindexed collections,
\* with the labels flipped back to (sources.index[j], targets.index[i])
IntersectionRecords(srcs, tgts) ==
    LET rs == WithRangeIndex(srcs)
        rt == WithRangeIndex(tgts)
        st == StampAll(<<>>, rs)
        perTarget(i) ==
            LET found == IndexedIntersections(rs, st, rt.rows[i].geom)
            IN [m \in DOMAIN found |->
                   RelRow(srcs.rows[found[m].id + 1].id, tgts.rows[i].id, found[m].geom)]
    IN Concat([i \in DOMAIN rt.rows |-> perTarget(i)])

\* an optional argument: <<>> is None, <<v>> is the value v
None == <<>>
Some(v) == <<v>>

\* a variant that also keeps the rows whose area equals area_cutoff
OverCutoffInclusive(rel, area_cutoff) ==
    IF area_cutoff = None THEN rel
    ELSE SelectSeq(rel, LAMBDA r : Area(r.geom) >= area_cutoff[1])

\* the rows intersections keeps under area_cutoff
OverCutoff(rel, area_cutoff) ==
    IF area_cutoff = None THEN rel
    ELSE SelectSeq(rel, LAMBDA r : Area(r.geom) > area_cutoff[1])

\* intersections(sources, targets, area_cutoff), behind require_same_crs.
\* A missing geometry cannot be stamped, indexed or queried: AttributeError.
IntersectionsOf(srcs, tgts, area_cutoff) ==
    IF ~SameCrs(srcs, tgts) THEN Raise("TypeError")
    ELSE IF HasMissing(srcs) \/ (srcs.rows # <<>> /\ HasMissing(tgts))
    THEN Raise("AttributeError")
    ELSE Ok(OverCutoff(SortByKey(IntersectionRecords(srcs, tgts)), area_cutoff),
            NoWarnings)

\* the stamps intersections leaves on the instances of its sources
StampsAfterIntersections(st, srcs) ==
    KeepStamps(StampAll(st, WithRangeIndex(srcs)), DOMAIN st)

-----------------------------------------------------------------------------
(* assign.py: a Series is a sequence of rows [id, value] *)

\* the "no assignment" value (NaN)
NaN == -1
Entry(i, v) == [id |-> i, value |-> v]
LabelsOf(series) == {series[k].id : k \in DOMAIN series}
ValueAt(series, i) == series[CHOOSE k \in DOMAIN series : series[k].id = i].value

\* a variant that keeps the last of the maxima
LastMax(rows) ==
    rows[SetMax({k \in DOMAIN rows : \A m \in DOMAIN rows : rows[m].w <= rows[k].w})]

\* the weight idxmax keeps among the rows of one source: the first maximum
FirstMax(rows) ==
    rows[SetMin({k \in DOMAIN rows : \A m \in DOMAIN rows : rows[m].w <= rows[k].w})]

\* assign_to_max(weights): per source (ascending), the target label of the first
\* row holding the maximum weight; drop_source_label takes index[1]
AssignToMax(wrel) ==
    LET srcIds == SortInts({wrel[k].key[1] : k \in DOMAIN wrel})
    IN [n \in DOMAIN srcIds |->
           Entry(srcIds[n],
                 FirstMax(SelectSeq(wrel, LAMBDA r : r.key[1] = srcIds[n])).key[2])]

WithArea(rel) == [k \in DOMAIN rel |-> [key |-> rel[k].key, w |-> Area(rel[k].geom)]]
WithLength(rel) == [k \in DOMAIN rel |-> [key |-> rel[k].key, w |-> Length(rel[k].geom)]]

\* IndexedGeometries.assign: one group per target, concatenated
CoveringGroups(srcs, tgts) ==
    LET st == StampAll(<<>>, srcs)
        group(i) ==
            LET covered == CoveredBy(srcs, st, tgts.rows[i].geom)
            IN [m \in DOMAIN covered |-> Entry(covered[m].id, tgts.rows[i].id)]
    IN Concat([i \in DOMAIN tgts.rows |-> group(i)])

HasDuplicateLabels(series) ==
    \E k, m \in DOMAIN series : k # m /\ series[k].id = series[m].id

\* Series.reindex(index): the values in the order of `ids`, NaN where absent
Reindex(series, ids) ==
    [k \in DOMAIN ids |->
        Entry(ids[k], IF ids[k] \in LabelsOf(series) THEN ValueAt(series, ids[k]) ELSE NaN)]

IdSeq(coll) == [k \in DOMAIN coll.rows |-> coll.rows[k].id]

\* assign_by_covering: pandas.concat raises on an empty list of groups, and
\* reindex raises on an index with duplicate labels
AssignByCovering(srcs, tgts) ==
    IF tgts.rows = <<>> THEN Raise("ValueError")
    ELSE LET groups == CoveringGroups(srcs, tgts)
         IN IF HasDuplicateLabels(groups) THEN Raise("ValueError")
            ELSE Ok(Reindex(groups, IdSeq(srcs)), NoWarnings)

\* sources[assignment.isna()]
Unassigned(srcs, assignment) ==
    [rows |-> SelectSeq(srcs.rows, LAMBDA r : ValueAt(assignment, r.id) = NaN),
     crs |-> srcs.crs]

\* assign_by_area(sources, targets)
AssignByArea(srcs, tgts) ==
    AssignToMax(WithArea(IntersectionsOf(srcs, tgts, Some(0)).value))

\* Series.update(other): the values of `other` replace those at the same label
Update(series, other) ==
    [k \in DOMAIN series |->
        IF series[k].id \in LabelsOf(other)
        THEN Entry(series[k].id, ValueAt(other, series[k].id))
        ELSE series[k]]

\* assign(sources, targets), behind require_same_crs
AssignOf(srcs, tgts) ==
    IF ~SameCrs(srcs, tgts) THEN Raise("TypeError")
    ELSE LET covering == AssignByCovering(srcs, tgts)
         IN IF covering.kind = "raise" THEN covering
            ELSE LET assignment == covering.value
                     unassigned == Unassigned(srcs, assignment)
                 IN Ok(Update(assignment, AssignByArea(unassigned, tgts)), NoWarnings)

\* the stamps assign leaves: the covering index stamps the source labels, then
\* intersections restamps the unassigned sources with their range index
StampsAfterAssign(st, srcs, tgts) ==
    IF ~SameCrs(srcs, tgts) THEN st
    ELSE LET st1 == KeepStamps(StampAll(st, srcs), DOMAIN st)
             covering == AssignByCovering(srcs, tgts)
         IN IF covering.kind = "raise" THEN st1
            ELSE StampsAfterIntersections(st1, Unassigned(srcs, covering.value))

-----------------------------------------------------------------------------
(* repair.py *)

\* What the installed pandas / geopandas may do where the code leaves it open:
\*   fill: what a binary GeoSeries operation pairs with a row whose label has
\*         no partner in the other series: the empty geometry (GeoSeries.align
\*         filling with BaseGeometry()) or a missing value, which makes the
\*         result of the row missing;
\*   dup:  whether reindex on an index with duplicate labels raises or keeps
\*         the rows (it keeps them when the two indexes are identical).
LibOutcomes == [fill : {"NA", "empty"}, dup : {"raise", "rows"}]
FillGeometry(lib) == IF lib.fill = "NA" THEN NoGeometry ELSE {}
\* a binary operation on geometries either of which may be missing
OrMissing(g, h, done) == IF IsNA(g) \/ IsNA(h) THEN NoGeometry ELSE done

\* a threshold is a fraction <<num, den>>; x / y < num / den, false when y = 0
RatioBelow(x, y, thr) == y > 0 /\ x * thr[2] < thr[1] * y
DefaultThreshold == <<1, 10>>

\* the label of a row of a two-level relation used as a collection: the pair
\* (i, j), ordered as the pair is
PairCode(key) == key[1] * 100 + key[2]

UnionAll(gs) == UNION gs

\* holes_of_union: the interior rings of the union of the collection, each as
\* a polygon, under a fresh range index; the union of nothing is no polygon
HolesOfUnion(coll) ==
    LET union == UnionAll({coll.rows[k].geom : k \in DOMAIN coll.rows})
        rings == UNION {PolygonHoles(poly) : poly \in Components(Faces(union))}
        order == SortInts({SetMin(h) : h \in rings})
    IN IF union = {} THEN Raise("TypeError")
       ELSE Ok([rows |-> [k \in DOMAIN order |->
                             Row(k - 1, FreshObj(k),
                                 Cl(CHOOSE h \in rings : SetMin(h) = order[k]))],
                crs |-> coll.crs], NoWarnings)

\* the assignment absorb_by_shared_perimeter keeps under relative_threshold
UnderThreshold(assignment, srcs, tgts, relative_threshold) ==
    IF relative_threshold = None THEN assignment
    ELSE SelectSeq(assignment,
                   LAMBDA a : RatioBelow(Area(GeomOf(srcs, a.id)),
                                         Area(GeomOf(tgts, a.value)),
                                         relative_threshold[1]))

\* the weights absorb_by_shared_perimeter assigns by
PerimeterWeights(inters) ==
    WithLength([k \in DOMAIN inters |-> [key |-> inters[k].key,
                                         geom |-> Buffer0(inters[k].geom)]])

\* targets.union(sources_to_absorb), reindexed to the targets, the rows that
\* absorbed nothing filled in from the targets
AbsorbInto(srcs, tgts, assignment, lib) ==
    [rows |-> [k \in DOMAIN tgts.rows |->
        LET t == tgts.rows[k]
            mine == {a \in Range(assignment) : a.value = t.id}
            absorbed == IF mine = {} THEN FillGeometry(lib)
                        ELSE UnionAll({GeomOf(srcs, a.id) : a \in mine})
            joined == OrMissing(t.geom, absorbed, Union(t.geom, absorbed))
        IN Row(t.id, FreshObj(k),
               IF IsNA(joined) \/ IsEmpty(joined) THEN t.geom ELSE joined)],
     crs |-> tgts.crs]

HasDuplicateIds(coll) ==
    \E k, m \in DOMAIN coll.rows : k # m /\ coll.rows[k].id = coll.rows[m].id

\* a variant that looks at the sizes of the collections before their CRS
AbsorbSizesFirst(srcs, tgts, relative_threshold, lib) ==
    IF Len(srcs.rows) = 0 THEN Ok(tgts, NoWarnings)
    ELSE IF Len(tgts.rows) = 0 THEN Raise("IndexError")
    ELSE IF ~SameCrs(srcs, tgts) THEN Raise("TypeError")
    ELSE Ok(AbsorbInto(srcs, tgts,
                       UnderThreshold(
                           AssignToMax(PerimeterWeights(
                               IntersectionsOf(srcs, tgts, None).value)),
                           srcs, tgts, relative_threshold), lib), NoWarnings)

\* a variant that looks for targets before it looks for sources
AbsorbTargetsFirst(srcs, tgts, relative_threshold, lib) ==
    IF ~SameCrs(srcs, tgts) THEN Raise("TypeError")
    ELSE IF Len(tgts.rows) = 0 THEN Raise("IndexError")
    ELSE IF Len(srcs.rows) = 0 THEN Ok(tgts, NoWarnings)
    ELSE Ok(AbsorbInto(srcs, tgts,
                       UnderThreshold(
                           AssignToMax(PerimeterWeights(
                               IntersectionsOf(srcs, tgts, None).value)),
                           srcs, tgts, relative_threshold), lib), NoWarnings)

\* absorb_by_shared_perimeter(sources, targets, relative_threshold), behind
\* require_same_crs
AbsorbBySharedPerimeter(srcs, tgts, relative_threshold, lib) ==
    IF ~SameCrs(srcs, tgts) THEN Raise("TypeError")
    ELSE IF Len(srcs.rows) = 0 THEN Ok(tgts, NoWarnings)
    ELSE IF Len(tgts.rows) = 0 THEN Raise("IndexError")
    ELSE LET found == IntersectionsOf(srcs, tgts, None)
         IN IF found.kind = "raise" THEN found
            ELSE LET assignment ==
                         UnderThreshold(AssignToMax(PerimeterWeights(found.value)),
                                        srcs, tgts, relative_threshold)
                 IN IF HasDuplicateIds(tgts) /\ lib.dup = "raise"
                    THEN Raise("ValueError")
                    ELSE Ok(AbsorbInto(srcs, tgts, assignment, lib), NoWarnings)

\* close_gaps(geometries, relative_threshold)
CloseGaps(coll, relative_threshold, lib) ==
    LET gaps == HolesOfUnion(coll)
    IN IF gaps.kind = "raise" THEN gaps
       ELSE AbsorbBySharedPerimeter(gaps.value, coll, relative_threshold, lib)

\* the overlaps resolve_overlaps repairs: positive area, buffered, and under
\* the threshold relative to both sides (split_by_level gives the two areas)
OverlapsOf(inters) ==
    LET pos == SelectSeq(inters, LAMBDA r : Area(r.geom) > 0)
    IN [k \in DOMAIN pos |-> [key |-> pos[k].key, geom |-> Buffer0(pos[k].geom)]]

OverlapInScope(coll, r, thr) ==
    /\ RatioBelow(Area(r.geom), Area(GeomOf(coll, r.key[1])), thr)
    /\ RatioBelow(Area(r.geom), Area(GeomOf(coll, r.key[2])), thr)

InScope(coll, overlaps, relative_threshold) ==
    IF relative_threshold = None THEN overlaps
    ELSE SelectSeq(overlaps, LAMBDA r : OverlapInScope(coll, r, relative_threshold[1]))

\* pandas.concat([overlaps.droplevel(1), overlaps.droplevel(0)])
ToRemove(overlaps) ==
    [k \in DOMAIN overlaps |-> [id |-> overlaps[k].key[1], geom |-> overlaps[k].geom]] \o
    [k \in DOMAIN overlaps |-> [id |-> overlaps[k].key[2], geom |-> overlaps[k].geom]]

\* geometries.difference(to_remove): the two series are aligned on their labels.
\* Identical indexes pair row by row; otherwise the outer join is sorted by
\* label, a label of to_remove that occurs n times gives n rows, and a label
\* without a partner is paired with the fill geometry.
AlignedDifference(coll, rem, lib) ==
    LET remIds == [k \in DOMAIN rem |-> rem[k].id]
        labels == SortInts(IdsOf(coll) \cup Range(remIds))
        rowsFor(l) ==
            LET rs == SelectSeq(rem, LAMBDA r : r.id = l)
            IN IF rs = <<>>
               THEN <<[id |-> l,
                       geom |-> OrMissing(GeomOf(coll, l), FillGeometry(lib),
                                          Difference(GeomOf(coll, l), FillGeometry(lib)))]>>
               ELSE [m \in DOMAIN rs |->
                        [id |-> l, geom |-> Difference(GeomOf(coll, l), rs[m].geom)]]
        aligned == IF IdSeq(coll) = remIds
                   THEN [k \in DOMAIN rem |->
                            [id |-> rem[k].id,
                             geom |-> Difference(coll.rows[k].geom, rem[k].geom)]]
                   ELSE Concat([n \in DOMAIN labels |-> rowsFor(labels[n])])
    IN [rows |-> [k \in DOMAIN aligned |->
                     Row(aligned[k].id, FreshObj(50 + k), aligned[k].geom)],
        crs |-> coll.crs]

\* resolve_overlaps(geometries, relative_threshold)
ResolveOverlaps(coll, relative_threshold, lib) ==
    LET inters == AdjacenciesOf(coll, "rook", FALSE, FALSE)
    IN IF inters.kind = "raise" THEN inters
       ELSE LET overlaps == InScope(coll, OverlapsOf(inters.value), relative_threshold)
                pieces == [rows |-> [k \in DOMAIN overlaps |->
                                        Row(PairCode(overlaps[k].key), FreshObj(k),
                                            overlaps[k].geom)],
                           crs |-> coll.crs]
            IN IF Len(overlaps) = 0 THEN Ok(coll, NoWarnings)
               ELSE AbsorbBySharedPerimeter(
                        pieces, AlignedDifference(coll, ToRemove(overlaps), lib),
                        None, lib)

\* the stamps absorb_by_shared_perimeter leaves on the instances of its sources
StampsAfterAbsorb(st, srcs, tgts) ==
    IF SameCrs(srcs, tgts) /\ Len(srcs.rows) > 0 /\ Len(tgts.rows) > 0
    THEN StampsAfterIntersections(st, srcs)
    ELSE st

-----------------------------------------------------------------------------
(* Calls on a pair of collections: intersections, assign,                   *)
(* absorb_by_shared_perimeter                                               *)

\* sources: the corner face, a domino, the top row; targets: the left column,
\* the two right columns, a domino on the bottom row
SrcShapes == {Rect(0, 0, 0, 0), Rect(0, 1, 1, 1), Rect(0, 2, 2, 2)}
TgtShapes == {Rect(0, 0, 0, 2), Rect(1, 0, 2, 2), Rect(0, 0, 1, 0)}
OverlaySources == Collections(SrcShapes, 0, MaxOverlay, 0, {"epsg:1", "epsg:2"})
OverlayTargets == Collections(TgtShapes, 0, MaxOverlay, 10, {"epsg:1"})
AreaCutoffs == {None, Some(0), Some(1)}
AbsorbThresholds == {None, Some(<<1, 2>>)}

OverlayInit ==
    /\ ProgressIdle
    /\ geometries = EmptyCollection
    /\ sources \in OverlaySources
    /\ targets \in OverlayTargets
    /\ relationship = <<>> /\ data = <<>> /\ weights = <<>>
    /\ stamp = UnstampedInputs({sources, targets})
    /\ call = NoCall
    /\ result = NoResult

CallIntersections ==
    \E area_cutoff \in AreaCutoffs :
        /\ call = NoCall
        /\ call' = [op |-> "intersections", area_cutoff |-> area_cutoff]
        /\ result' = IntersectionsOf(sources, targets, area_cutoff)
        /\ stamp' = IF SameCrs(sources, targets)
                    THEN StampsAfterIntersections(stamp, sources) ELSE stamp
        /\ shown' = IF SameCrs(sources, targets) THEN ShownAfter(1) ELSE shown
        /\ UNCHANGED <<enabled, previous_value, blocks, raising, inputVars>>

CallAssign ==
    /\ call = NoCall
    /\ call' = [op |-> "assign"]
    /\ result' = AssignOf(sources, targets)
    /\ stamp' = StampsAfterAssign(stamp, sources, targets)
    /\ shown' = IF ~SameCrs(sources, targets) \/ targets.rows = <<>> THEN shown
                ELSE IF AssignOf(sources, targets).kind = "raise" THEN ShownAfter(1)
                ELSE ShownAfter(2)
    /\ UNCHANGED <<enabled, previous_value, blocks, raising, inputVars>>

CallAbsorb ==
    \E relative_threshold \in AbsorbThresholds, lib \in LibOutcomes :
        /\ call = NoCall
        /\ call' = [op |-> "absorb_by_shared_perimeter",
                    relative_threshold |-> relative_threshold]
        /\ result' = AbsorbBySharedPerimeter(sources, targets, relative_threshold, lib)
        /\ stamp' = StampsAfterAbsorb(stamp, sources, targets)
        /\ shown' = IF stamp' = stamp THEN shown ELSE ShownAfter(1)
        /\ UNCHANGED <<enabled, previous_value, blocks, raising, inputVars>>

\* assign_by_area(sources, targets): the CRS guard is that of intersections
CallAssignByArea ==
    /\ call = NoCall
    /\ call' = [op |-> "assign_by_area"]
    /\ result' = IF SameCrs(sources, targets)
                 THEN Ok(AssignByArea(sources, targets), NoWarnings)
                 ELSE Raise("TypeError")
    /\ stamp' = IF SameCrs(sources, targets)
                THEN StampsAfterIntersections(stamp, sources) ELSE stamp
    /\ shown' = IF SameCrs(sources, targets) THEN ShownAfter(1) ELSE shown
    /\ UNCHANGED <<enabled, previous_value, blocks, raising, inputVars>>

OverlayNext == CallIntersections \/ CallAssign \/ CallAssignByArea \/ CallAbsorb

SpecOverlay == OverlayInit /\ [][OverlayNext]_vars

-----------------------------------------------------------------------------
(* Calls on one collection: close_gaps, resolve_overlaps                    *)

\* two 2x2 blocks overlapping in the centre face, a domino inside the second
\* block, and an arch over the bottom row, which enclose the centre face
Arch == Union(Rect(0, 2, 2, 2), Union(Rect(0, 1, 0, 1), Rect(2, 1, 2, 1)))
RepairShapes == {Rect(0, 0, 1, 1), Rect(1, 1, 2, 2), Rect(1, 1, 2, 1),
                 Arch, Rect(0, 0, 2, 0)}
RepairInputs == Collections(RepairShapes, 1, MaxGeoms, 0, {"epsg:1"})
RepairThresholds == {None, Some(DefaultThreshold), Some(<<1, 5>>), Some(<<1, 3>>)}

RepairInit ==
    /\ ProgressIdle
    /\ geometries \in RepairInputs
    /\ sources = EmptyCollection
    /\ targets = EmptyCollection
    /\ relationship = <<>> /\ data = <<>> /\ weights = <<>>
    /\ stamp = UnstampedInputs({geometries})
    /\ call = NoCall
    /\ result = NoResult

CallCloseGaps ==
    \E relative_threshold \in RepairThresholds, lib \in LibOutcomes :
        /\ call = NoCall
        /\ call' = [op |-> "close_gaps", relative_threshold |-> relative_threshold]
        /\ result' = CloseGaps(geometries, relative_threshold, lib)
        /\ shown' = IF Len(HolesOfUnion(geometries).value.rows) > 0
                    THEN ShownAfter(1) ELSE shown
        /\ UNCHANGED <<enabled, previous_value, blocks, raising, inputVars, stamp>>

CallResolveOverlaps ==
    \E relative_threshold \in RepairThresholds, lib \in LibOutcomes :
        /\ call = NoCall
        /\ call' = [op |-> "resolve_overlaps", relative_threshold |-> relative_threshold]
        /\ result' = ResolveOverlaps(geometries, relative_threshold, lib)
        /\ stamp' = KeepStamps(StampAll(stamp, geometries), DOMAIN stamp)
        /\ shown' = ShownAfter(1)
        /\ UNCHANGED <<enabled, previous_value, blocks, raising, inputVars>>

RepairNext == CallCloseGaps \/ CallResolveOverlaps

SpecRepair == RepairInit /\ [][RepairNext]_vars

-----------------------------------------------------------------------------
(* normalize.py, and prorate of intersections.py                            *)

\* A float is a fraction <<n, d>> with d > 0; <<1, 0>> and <<-1, 0>> are the
\* infinities and <<0, 0>> is NaN.
Num(n) == <<n, 1>>
NotANumber == <<0, 0>>
IsNaN(x) == x = NotANumber
Sign(n) == IF n > 0 THEN 1 ELSE IF n < 0 THEN -1 ELSE 0
\* x / y on numbers held as integers
Divide(x, y) == IF y = 0 THEN <<Sign(x), 0>>
                ELSE IF y < 0 THEN <<-x, -y>> ELSE <<x, y>>
\* d * x, d an integer
Times(d, x) == IF x[2] = 0 THEN <<Sign(d) * x[1], 0>> ELSE <<d * x[1], x[2]>>
Plus(x, y) == IF IsNaN(x) \/ IsNaN(y) THEN NotANumber
              ELSE IF x[2] = 0 /\ y[2] = 0 THEN (IF x = y THEN x ELSE NotANumber)
              ELSE IF x[2] = 0 THEN x
              ELSE IF y[2] = 0 THEN y
              ELSE <<x[1] * y[2] + y[1] * x[2], x[2] * y[2]>>
FillNa(x) == IF IsNaN(x) THEN Num(0) ELSE x
NumEq(x, y) == IF x[2] = 0 \/ y[2] = 0 THEN x = y /\ ~IsNaN(x)
               ELSE x[1] * y[2] = y[1] * x[2]

\* sum(), which skips NaN
RECURSIVE NumSum(_)
NumSum(xs) == IF xs = <<>> THEN Num(0)
              ELSE IF IsNaN(Head(xs)) THEN NumSum(Tail(xs))
              ELSE Plus(Head(xs), NumSum(Tail(xs)))

\* the weight series of a relation, as floats
AsFloats(wrel) == [k \in DOMAIN wrel |-> [key |-> wrel[k].key, w |-> Num(wrel[k].w)]]

\* a variant that divides every weight by the sum of all the weights
NormalizeByTotal(wrel, level) ==
    LET total == SeqSum([m \in DOMAIN wrel |-> wrel[m].w])
    IN [k \in DOMAIN wrel |->
           [key |-> wrel[k].key, w |-> FillNa(Divide(wrel[k].w, total))]]

\* normalize(weights, level): each weight over the sum of its group at `level`,
\* NaN (0 / 0) replaced by 0
Normalize(wrel, level) ==
    LET group(k) == wrel[k].key[level + 1]
        denominator(k) ==
            SeqSum([m \in DOMAIN wrel |-> IF group(m) = group(k) THEN wrel[m].w ELSE 0])
    IN [k \in DOMAIN wrel |->
           [key |-> wrel[k].key, w |-> FillNa(Divide(wrel[k].w, denominator(k)))]]

\* weights.reindex_like(relationship): NaN where the relationship's label is absent
ReindexLike(wts, rel) ==
    [k \in DOMAIN rel |->
        IF \E m \in DOMAIN wts : wts[m].key = rel[k].key
        THEN wts[CHOOSE m \in DOMAIN wts : wts[m].key = rel[k].key].w
        ELSE NotANumber]

\* source_assignment.map(data) * weights, row by row of the relationship
Disaggregated(rel, values, wts) ==
    LET w == ReindexLike(wts, rel)
    IN [k \in DOMAIN rel |->
           [key |-> rel[k].key,
            value |-> IF rel[k].key[1] \notin LabelsOf(values) \/ IsNaN(w[k])
                      THEN NotANumber
                      ELSE Times(ValueAt(values, rel[k].key[1]), w[k])]]

\* disaggregated.groupby(level="target").agg("sum")
AggregatedByTarget(rows) ==
    LET tgtIds == SortInts({rows[k].key[2] : k \in DOMAIN rows})
    IN [n \in DOMAIN tgtIds |->
           Entry(tgtIds[n],
                 NumSum([k \in DOMAIN rows |->
                            IF rows[k].key[2] = tgtIds[n] THEN rows[k].value
                            ELSE NotANumber]))]

\* prorate(relationship, data, weights) for a two-level relationship, a Series
\* of data and the default aggregate_by
Prorate(rel, values, wts) ==
    Ok(AggregatedByTarget(Disaggregated(rel, values, wts)), NoWarnings)

\* the data looked up by the label of each row of the assignment
ProrateByIndex(assignment, values, wts) ==
    [k \in DOMAIN assignment |->
        Entry(assignment[k].id,
              IF assignment[k].id \notin LabelsOf(values)
                 \/ assignment[k].id \notin LabelsOf(wts)
              THEN NotANumber
              ELSE Times(ValueAt(values, assignment[k].id),
                         Num(ValueAt(wts, assignment[k].id))))]

\* prorate(relationship, data, weights) for a single-level relationship (an
\* assignment): source_assignment is the relationship itself, so map(data)
\* looks the data up by the VALUE of each row; the weights are those at the
\* row's label; nothing is aggregated
ProrateByAssignment(assignment, values, wts) ==
    [k \in DOMAIN assignment |->
        Entry(assignment[k].id,
              IF assignment[k].value \notin LabelsOf(values)
                 \/ assignment[k].id \notin LabelsOf(wts)
              THEN NotANumber
              ELSE Times(ValueAt(values, assignment[k].value),
                         Num(ValueAt(wts, assignment[k].id))))]

ProrateSources == Collections(SrcShapes, 1, MaxOverlay, 0, {"epsg:1"})
ProrateTargets == Collections(TgtShapes, 1, MaxOverlay, 10, {"epsg:1"})
DataValues == {0, 6}
DataSeries(coll) ==
    {[k \in DOMAIN coll.rows |-> Entry(coll.rows[k].id, v[k])] :
        v \in [DOMAIN coll.rows -> DataValues]}
\* the weights callers prorate by: the areas or the lengths of the pieces
WeightChoices(rel) == {WithArea(rel), WithLength(rel)}

ProrateInit ==
    /\ ProgressIdle
    /\ geometries = EmptyCollection
    /\ sources \in ProrateSources
    /\ targets \in ProrateTargets
    /\ relationship = IntersectionsOf(sources, targets, None).value
    /\ data \in DataSeries(sources)
    /\ weights \in WeightChoices(relationship)
    /\ stamp = StampsAfterIntersections(UnstampedInputs({sources, targets}), sources)
    /\ call = NoCall
    /\ result = NoResult

CallNormalize ==
    \E level \in {0, 1} :
        /\ call = NoCall
        /\ call' = [op |-> "normalize", level |-> level]
        /\ result' = Ok(Normalize(weights, level), NoWarnings)
        /\ UNCHANGED <<progressVars, inputVars, stamp>>

\* prorate(relationship, data, weights), the weights as given or passed through
\* normalize(weights, level=source) first
CallProrate ==
    \E normalized \in BOOLEAN :
        /\ call = NoCall
        /\ call' = [op |-> "prorate", normalized |-> normalized]
        /\ result' = Prorate(relationship, data,
                             IF normalized THEN Normalize(weights, 0)
                             ELSE AsFloats(weights))
        /\ UNCHANGED <<progressVars, inputVars, stamp>>

\* prorate(assign_by_area(sources, targets), data, weights), the weights being
\* the areas of the sources
CallProrateAssignment ==
    /\ call = NoCall
    /\ call' = [op |-> "prorate_assignment"]
    /\ result' = Ok(ProrateByAssignment(
                        AssignByArea(sources, targets), data,
                        [k \in DOMAIN sources.rows |->
                            Entry(sources.rows[k].id, Area(sources.rows[k].geom))]),
                    NoWarnings)
    /\ UNCHANGED <<progressVars, inputVars, stamp>>

ProrateNext == CallNormalize \/ CallProrate \/ CallProrateAssignment

SpecProrate == ProrateInit /\ [][ProrateNext]_vars

\* normalize as a standalone utility: any weight series over a two-level index
WeightSeries ==
    UNION {[1 .. n -> [key : {<<0, 1>>, <<0, 2>>, <<1, 2>>}, w : {-1, 0, 1, 2}]] :
              n \in 1 .. MaxRows}

NormalizeInit ==
    /\ ProgressIdle
    /\ geometries = EmptyCollection
    /\ sources = EmptyCollection
    /\ targets = EmptyCollection
    /\ relationship = <<>> /\ data = <<>>
    /\ weights \in WeightSeries
    /\ stamp = <<>>
    /\ call = NoCall
    /\ result = NoResult

SpecNormalize == NormalizeInit /\ [][CallNormalize]_vars

-----------------------------------------------------------------------------
(* a spatial index kept by its caller across other calls *)

\* query as its caller sees it: .loc raises KeyError on a list of labels holding
\* one that the collection of the index does not have
QueryOf(coll, st, geometry) ==
    LET hits == SelectSeq(coll.rows, LAMBDA r : BBoxIntersects(r.geom, geometry))
    IN IF \E k \in DOMAIN hits : st[hits[k].obj] \notin IdsOf(coll)
       THEN Raise("KeyError")
       ELSE Ok(Query(coll, st, geometry), NoWarnings)

IndexInit ==
    /\ ProgressIdle
    /\ geometries \in AdjInputs
    /\ sources = EmptyCollection
    /\ targets = EmptyCollection
    /\ relationship = <<>> /\ data = <<>> /\ weights = <<>>
    /\ stamp = UnstampedInputs({geometries})
    /\ call = NoCall
    /\ result = NoResult

\* index = IndexedGeometries(geometries)
BuildIndex ==
    /\ call = NoCall
    /\ call' = [op |-> "IndexedGeometries"]
    /\ stamp' = StampAll(stamp, geometries)
    /\ UNCHANGED <<progressVars, inputVars, result>>

\* intersections(geometries, geometries) while the index is alive: the
\* reindexed sources hold the instances of `geometries`, and the index built
\* over them stamps the positions 0 .. n-1
IntersectionsWhileIndexed ==
    /\ call.op = "IndexedGeometries"
    /\ call' = [op |-> "intersections"]
    /\ result' = IntersectionsOf(geometries, geometries, None)
    /\ stamp' = StampAll(stamp, WithRangeIndex(geometries))
    /\ shown' = ShownAfter(1)
    /\ UNCHANGED <<enabled, previous_value, blocks, raising, inputVars>>

\* index.query(geometry) on the index built first
QueryIndex ==
    \E geometry \in AdjShapes :
        /\ call.op \in {"IndexedGeometries", "intersections"}
        /\ call' = [op |-> "query", geometry |-> geometry]
        /\ result' = QueryOf(geometries, stamp, geometry)
        /\ UNCHANGED <<progressVars, inputVars, stamp>>

IndexNext == BuildIndex \/ IntersectionsWhileIndexed \/ QueryIndex

SpecIndex == IndexInit /\ [][IndexNext]_vars

-----------------------------------------------------------------------------
(* Claims *)

\* the unordered pairs of distinct geometries of a collection that intersect,
\* each written with the smaller identifier first
IntersectingPairs(coll) ==
    {p \in IdsOf(coll) \X IdsOf(coll) :
        p[1] < p[2] /\ Intersection(GeomOf(coll, p[1]), GeomOf(coll, p[2])) # {}}
PositiveLengthPairs(coll) ==
    {p \in IntersectingPairs(coll) :
        Length(Intersection(GeomOf(coll, p[1]), GeomOf(coll, p[2]))) > 0}
NoKeyTwice(rel) == \A k, m \in DOMAIN rel : rel[k].key = rel[m].key => k = m
KeysAscending(rel) == \A k \in DOMAIN rel : rel[k].key[1] < rel[k].key[2]
AdjacenciesCalled == call.op = "adjacencies" /\ call.adjacency_type \in {"rook", "queen"}

C3_FlagRestoredOnExit ==
    [][Len(blocks') < Len(blocks) => enabled' = blocks[Len(blocks)]]_vars

\* C6: for every collection and every valid kind, adjacencies returns its
\* relation, with the overlapping pairs still in it, and signals an island
\* diagnostic exactly when warn_for_islands is set and some identifier appears
\* in no surviving pair, naming exactly those identifiers (all of them when no
\* geometry is adjacent to any other).
C6_DiagnosticsAreNonFatal ==
    AdjacenciesCalled =>
        /\ result.kind = "ok"
        /\ \A p \in IntersectingPairs(geometries) :
              Area(Intersection(GeomOf(geometries, p[1]), GeomOf(geometries, p[2]))) > 0
                  => p \in KeysOf(result.value)
        /\ result.warnings.IslandWarning =
              IF call.warn_for_islands
              THEN IdsOf(geometries) \ IdsInPairs(result.value)
              ELSE {}

\* C2: for collections with equal CRS tags, assign returns exactly one entry
\* per source identifier, every value a target identifier or "no assignment",
\* and a source that no target covers and that has no positive-area
\* intersection with any target maps to "no assignment".
C2_AssignIsTotal ==
    (call.op = "assign" /\ SameCrs(sources, targets)) =>
        /\ result.kind = "ok"
        /\ Len(result.value) = Len(sources.rows)
        /\ LabelsOf(result.value) = IdsOf(sources)
        /\ \A k \in DOMAIN result.value :
              result.value[k].value \in IdsOf(targets) \cup {NaN}
        /\ \A k \in DOMAIN sources.rows :
              (\A m \in DOMAIN targets.rows :
                  Area(Intersection(sources.rows[k].geom, targets.rows[m].geom)) = 0)
                  => ValueAt(result.value, sources.rows[k].id) = NaN

DataTotal == SeqSum([k \in DOMAIN data |-> data[k].value])
ResultTotal == NumSum([k \in DOMAIN result.value |-> result.value[k].value])
\* the sources whose weights sum to something other than zero
WeightedSources ==
    {i \in LabelsOf(data) :
        SeqSum([m \in DOMAIN weights |->
                   IF weights[m].key[1] = i THEN weights[m].w ELSE 0]) # 0}
WeightedTotal ==
    SeqSum([k \in DOMAIN data |->
               IF data[k].id \in WeightedSources THEN data[k].value ELSE 0])
ProrateNormalizedCalled == call.op = "prorate" /\ call.normalized

\* C4 (as stated): with weights normalized per source, the values prorate
\* returns sum to the sum of the data over all the sources.
C4_MassConserved ==
    ProrateNormalizedCalled => NumEq(ResultTotal, Num(DataTotal))

\* C4 (amended): with weights normalized per source, the values prorate returns
\* sum to the sum of the data over the sources whose weights do not sum to
\* zero; the data of a source with no row in the relation, or with weights
\* that sum to zero, reaches no target.
C4_MassOfWeightedSourcesConserved ==
    ProrateNormalizedCalled => NumEq(ResultTotal, Num(WeightedTotal))

\* C4 witness: two sources with data, one of them divided between two targets,
\* and all of it arrives
C4_Witness ==
    /\ ProrateNormalizedCalled
    /\ Len(data) = 2 /\ \A k \in DOMAIN data : data[k].value > 0
    /\ WeightedSources = LabelsOf(data)
    /\ \E k, m \in DOMAIN weights :
          /\ k # m /\ weights[k].key[1] = weights[m].key[1]
          /\ weights[k].w > 0 /\ weights[m].w > 0
    /\ NumEq(ResultTotal, Num(DataTotal))

SameRows(coll, other) ==
    [k \in DOMAIN coll.rows |-> <<coll.rows[k].id, coll.rows[k].geom>>] =
    [k \in DOMAIN other.rows |-> <<other.rows[k].id, other.rows[k].geom>>]
\* the holes in the union of a collection, as face sets
UnionHoles(coll) ==
    UNION {PolygonHoles(poly) :
              poly \in Components(Faces(UNION {coll.rows[k].geom : k \in DOMAIN coll.rows}))}
NoOverlaps(coll) ==
    \A k, m \in DOMAIN coll.rows :
        k # m => Area(Intersection(coll.rows[k].geom, coll.rows[m].geom)) = 0

\* C5: close_gaps returns a collection equal to its input when the union of
\* the input has no holes, and resolve_overlaps returns a collection equal to
\* its input when no two geometries have a positive-area intersection
\* (geometries that do not touch and single geometries included).
C5_IdentityOnCleanInput ==
    /\ (call.op = "close_gaps" /\ UnionHoles(geometries) = {}) =>
          (result.kind = "ok" /\ SameRows(result.value, geometries))
    /\ (call.op = "resolve_overlaps" /\ NoOverlaps(geometries)) =>
          (result.kind = "ok" /\ SameRows(result.value, geometries))

\* the (source, target) pairs whose geometries meet
MeetingPairs ==
    {p \in IdsOf(sources) \X IdsOf(targets) :
        Intersection(GeomOf(sources, p[1]), GeomOf(targets, p[2])) # {}}
PieceOf(p) == Intersection(GeomOf(sources, p[1]), GeomOf(targets, p[2]))

\* C7: intersections returns exactly one entry for each (source id, target id)
\* pair whose geometries have a nonempty intersection, keyed by the original
\* identifiers, in ascending (source, target) order, holding the intersection;
\* under area_cutoff exactly the entries with a larger area are kept.
C7_ExactlyTheMeetingPairs ==
    (call.op = "intersections" /\ SameCrs(sources, targets)) =>
        /\ result.kind = "ok"
        /\ KeysOf(result.value) =
              {p \in MeetingPairs :
                  call.area_cutoff = None \/ Area(PieceOf(p)) > call.area_cutoff[1]}
        /\ \A k \in DOMAIN result.value :
              result.value[k].geom = PieceOf(result.value[k].key)
        /\ \A k, m \in DOMAIN result.value :
              k < m => PairLt(result.value[k].key, result.value[m].key)

\* C7 witness: sources listed with descending identifiers, a cutoff of 0 that
\* drops a pair meeting along an edge and keeps two pairs
C7_Witness ==
    /\ call.op = "intersections" /\ call.area_cutoff = Some(0)
    /\ Len(sources.rows) = 2 /\ sources.rows[1].id > sources.rows[2].id
    /\ Len(result.value) >= 2
    /\ MeetingPairs \ KeysOf(result.value) # {}

OverlayCalled == call.op \in {"intersections", "assign", "absorb_by_shared_perimeter"}

\* C8: intersections, assign and absorb_by_shared_perimeter raise the CRS error
\* whenever the two collections carry different tags, before any index is
\* built (no geometry is stamped, no progress is shown) and before the
\* empty-sources and empty-targets checks; with equal tags the guard never
\* fails.
C8_CrsGuardComesFirst ==
    OverlayCalled =>
        IF SameCrs(sources, targets)
        THEN result.error # "TypeError"
        ELSE /\ result = Raise("TypeError")
             /\ stamp = UnstampedInputs({sources, targets})

\* C8 witness: absorption of sources into an empty target collection with
\* another CRS raised the CRS error
C8_Witness ==
    /\ call.op = "absorb_by_shared_perimeter"
    /\ ~SameCrs(sources, targets)
    /\ sources.rows # <<>> /\ targets.rows = <<>>
    /\ result.error = "TypeError"

\* the length of the boundary a gap shares with a geometry
SharedBoundary(hole, g) == Length(Intersection(Cl(hole), g))
\* the geometries sharing the longest boundary with a gap
LongestNeighbors(hole) ==
    {i \in IdsOf(geometries) :
        /\ SharedBoundary(hole, GeomOf(geometries, i)) > 0
        /\ \A j \in IdsOf(geometries) :
              SharedBoundary(hole, GeomOf(geometries, j)) <=
              SharedBoundary(hole, GeomOf(geometries, i))}
AbsorbedBy(hole) ==
    {i \in IdsOf(result.value) : hole \subseteq Faces(GeomOf(result.value, i))}

\* C9: close_gaps absorbs each gap into the geometry sharing the longest
\* boundary with it, unless the gap's area exceeds relative_threshold times
\* that geometry's area: a gap of at most that size (equality included) is
\* absorbed, a larger one is left untouched, and with no threshold every gap
\* is absorbed.
C9_GapAbsorbedUnlessLarger ==
    call.op = "close_gaps" =>
        /\ result.kind = "ok"
        /\ \A hole \in UnionHoles(geometries) :
              \E i \in LongestNeighbors(hole) :
                  IF \/ call.relative_threshold = None
                     \/ Cardinality(hole) * call.relative_threshold[1][2] <=
                        call.relative_threshold[1][1] * Area(GeomOf(geometries, i))
                  THEN i \in AbsorbedBy(hole)
                  ELSE AbsorbedBy(hole) = {}

\* the pairs of geometries that overlap, as positions in the collection
OverlappingRows ==
    {p \in (DOMAIN geometries.rows) \X (DOMAIN geometries.rows) :
        /\ geometries.rows[p[1]].id < geometries.rows[p[2]].id
        /\ Area(Intersection(geometries.rows[p[1]].geom, geometries.rows[p[2]].geom)) > 0}
OverlapOf(p) == Faces(Intersection(geometries.rows[p[1]].geom, geometries.rows[p[2]].geom))
BothBelow(p, thr) ==
    /\ RatioBelow(Cardinality(OverlapOf(p)), Area(geometries.rows[p[1]].geom), thr)
    /\ RatioBelow(Cardinality(OverlapOf(p)), Area(geometries.rows[p[2]].geom), thr)
\* the rows of the result under an identifier
ResultRows(i) == SelectSeq(result.value.rows, LAMBDA r : r.id = i)

\* C10: resolve_overlaps with a numeric threshold repairs an overlap only if
\* its area relative to each of the two geometries is below the threshold; any
\* other overlap is left in place: both geometries are returned, each once,
\* still holding the overlap.
C10_OnlyOverlapsBelowBothRatios ==
    (call.op = "resolve_overlaps" /\ call.relative_threshold # None) =>
        \A p \in OverlappingRows :
            /\ result.kind = "ok"
            /\ IF BothBelow(p, call.relative_threshold[1])
               THEN \E q \in {1, 2} :
                       \A r \in Range(ResultRows(geometries.rows[p[q]].id)) :
                           OverlapOf(p) \cap r.geom = {}
               ELSE \A q \in {1, 2} :
                       /\ Len(ResultRows(geometries.rows[p[q]].id)) = 1
                       /\ OverlapOf(p) \subseteq ResultRows(geometries.rows[p[q]].id)[1].geom

\* the overlaps resolve_overlaps has in scope under the threshold of the call
InScopeRows ==
    {p \in OverlappingRows :
        call.relative_threshold = None \/ BothBelow(p, call.relative_threshold[1])}
\* the length of the boundary between an overlap piece and what is left of
\* side q of the pair once the piece is removed from it
SideBoundary(p, q) ==
    Length(Intersection(Cl(OverlapOf(p)),
                        Difference(geometries.rows[p[q]].geom, Cl(OverlapOf(p)))))
LongerSides(p) ==
    {q \in {1, 2} : \A o \in {1, 2} : SideBoundary(p, o) <= SideBoundary(p, q)}
HoldsPiece(p, i) ==
    \E r \in Range(ResultRows(i)) : ~IsNA(r.geom) /\ OverlapOf(p) \subseteq r.geom

\* C11: resolve_overlaps gives every in-scope overlap piece of A and B to
\* exactly one of A and B, the one sharing the longer boundary with the piece,
\* whatever the size of the piece, and the other side no longer holds it.
C11_PieceGoesToLongerSide ==
    call.op = "resolve_overlaps" =>
        \A p \in InScopeRows :
            /\ result.kind = "ok"
            /\ \E q \in LongerSides(p) :
                  /\ HoldsPiece(p, geometries.rows[p[q]].id)
                  /\ ~HoldsPiece(p, geometries.rows[p[3 - q]].id)

\* the targets whose intersection with source i has the largest area, when
\* that area is positive
LargestPieces(i) ==
    {t \in IdsOf(targets) :
        /\ Area(PieceOf(<<i, t>>)) > 0
        /\ \A u \in IdsOf(targets) : Area(PieceOf(<<i, u>>)) <= Area(PieceOf(<<i, t>>))}
Uncovered(i) == \A t \in IdsOf(targets) : ~Covers(GeomOf(targets, t), GeomOf(sources, i))

\* C12: assign_by_area gives each source the target whose intersection with it
\* has the maximum area, and among several such targets the one with the
\* smallest identifier; assign does so for the sources no target covers.
C12_LargestAreaSmallestIdWins ==
    /\ (call.op = "assign_by_area" /\ SameCrs(sources, targets)) =>
          /\ result.kind = "ok"
          /\ LabelsOf(result.value) = {i \in IdsOf(sources) : LargestPieces(i) # {}}
          /\ \A k \in DOMAIN result.value :
                result.value[k].value = SetMin(LargestPieces(result.value[k].id))
    /\ (call.op = "assign" /\ result.kind = "ok") =>
          \A i \in IdsOf(sources) :
              (Uncovered(i) /\ LargestPieces(i) # {}) =>
                  ValueAt(result.value, i) = SetMin(LargestPieces(i))

\* C12 witness: targets listed with descending identifiers, a source cut into
\* equal parts by two of them, given to the smaller identifier
C12_Witness ==
    /\ call.op = "assign_by_area" /\ result.kind = "ok"
    /\ Len(targets.rows) = 2 /\ targets.rows[1].id > targets.rows[2].id
    /\ \E k \in DOMAIN result.value :
          /\ Cardinality(LargestPieces(result.value[k].id)) = 2
          /\ result.value[k].value = targets.rows[2].id

AbsorbCalledSameCrs ==
    call.op = "absorb_by_shared_perimeter" /\ SameCrs(sources, targets)

\* C13: with equal CRS tags absorb_by_shared_perimeter raises the no-target
\* error exactly when sources is nonempty and targets is empty; with no
\* sources it returns the targets themselves, also when there are no targets.
C13_NoTargetErrorOnlyWithSources ==
    AbsorbCalledSameCrs =>
        /\ result.error = "IndexError" <=> (sources.rows # <<>> /\ targets.rows = <<>>)
        /\ sources.rows = <<>> => result = Ok(targets, NoWarnings)

\* C13 witness: no sources and no targets, and the empty targets came back
C13_Witness ==
    /\ AbsorbCalledSameCrs
    /\ sources.rows = <<>> /\ targets.rows = <<>>
    /\ result.kind = "ok" /\ result.value.rows = <<>>

\* the rows of the weights in the group of row k at the level of the call
GroupOf(k) ==
    {m \in DOMAIN weights :
        weights[m].key[call.level + 1] = weights[k].key[call.level + 1]}
GroupSum(k) ==
    SeqSum([m \in DOMAIN weights |-> IF m \in GroupOf(k) THEN weights[m].w ELSE 0])
NormalizedSum(k) ==
    NumSum([m \in DOMAIN weights |->
               IF m \in GroupOf(k) THEN result.value[m].w ELSE Num(0)])

\* C14: normalize returns a series over the index of the weights in which the
\* weights of every group at the given level sum to 1 when the group's sum is
\* not zero, each being the weight over the group's sum, and are all 0 when
\* the group's sum is zero.
C14_GroupsSumToOneOrAreZero ==
    call.op = "normalize" =>
        /\ [k \in DOMAIN result.value |-> result.value[k].key] =
           [k \in DOMAIN weights |-> weights[k].key]
        /\ \A k \in DOMAIN weights :
              IF GroupSum(k) # 0
              THEN /\ NumEq(NormalizedSum(k), Num(1))
                   /\ NumEq(Times(GroupSum(k), result.value[k].w), Num(weights[k].w))
              ELSE result.value[k].w = Num(0)

\* what the queen call on the same collection returns
QueenResult ==
    AdjacenciesOf(geometries, "queen", call.warn_for_overlaps, call.warn_for_islands)
RookCalled == call.op = "adjacencies" /\ call.adjacency_type = "rook"
PositiveLength(key) ==
    Length(Intersection(GeomOf(geometries, key[1]), GeomOf(geometries, key[2]))) > 0

\* C15: the rook result of adjacencies is the queen result of the same
\* collection restricted to the pairs whose intersection has positive length:
\* rook pairs are queen pairs, and a queen pair missing from rook has an
\* intersection of zero length.
C15_RookIsQueenWithPositiveLength ==
    RookCalled =>
        /\ result.kind = QueenResult.kind
        /\ result.kind = "ok" =>
              /\ result.value = SelectSeq(QueenResult.value, LAMBDA r : PositiveLength(r.key))
              /\ KeysOf(result.value) \subseteq KeysOf(QueenResult.value)
              /\ \A key \in KeysOf(QueenResult.value) \ KeysOf(result.value) :
                    ~PositiveLength(key)

\* a rook call that keeps a shared edge and drops a pair meeting in one point
C15_Witness ==
    /\ RookCalled /\ result.kind = "ok"
    /\ result.value # <<>>
    /\ KeysOf(QueenResult.value) \ KeysOf(result.value) # {}
    /\ \E r \in Range(result.value) : Area(r.geom) = 0

\* the identifiers of the targets that cover the source row
CoveringTargets(row) ==
    {t \in IdsOf(targets) : Covers(GeomOf(targets, t), row.geom)}
DoublyCovered ==
    {k \in DOMAIN sources.rows : Cardinality(CoveringTargets(sources.rows[k])) > 1}

\* C16: when a source is covered by more than one target, assign completes
\* and returns exactly one entry for that source, whose value is one of the
\* covering targets, and a source covered by one target only is still assigned
\* to that target.
C16_DoubleCoverStillAssigns ==
    (call.op = "assign" /\ SameCrs(sources, targets) /\ DoublyCovered # {}) =>
        /\ result.kind = "ok"
        /\ \A k \in DoublyCovered :
              /\ Cardinality({m \in DOMAIN result.value :
                                 result.value[m].id = sources.rows[k].id}) = 1
              /\ ValueAt(result.value, sources.rows[k].id)
                     \in CoveringTargets(sources.rows[k])
        /\ \A k \in DOMAIN sources.rows \ DoublyCovered :
              CoveringTargets(sources.rows[k]) # {} =>
                  ValueAt(result.value, sources.rows[k].id)
                      \in CoveringTargets(sources.rows[k])

\* the rows of the indexed collection whose extent meets the queried geometry
QueryHits ==
    SelectSeq(geometries.rows, LAMBDA r : BBoxIntersects(r.geom, call.geometry))

\* C17: query on an index returns the stored geometries under the identifiers
\* they have in the index's own collection, whatever was called since the
\* index was built, including an intersections call over the same instances.
C17_QueryReturnsOwnIdentifiers ==
    call.op = "query" =>
        /\ result.kind = "ok"
        /\ [k \in DOMAIN result.value |-> result.value[k].id] =
           [k \in DOMAIN QueryHits |-> QueryHits[k].id]

\* the assignment handed to prorate, and the rows of the result
GivenAssignment == AssignByArea(sources, targets)
SourceArea(i) == Area(GeomOf(sources, i))
DataAt(i) == IF i \in LabelsOf(data) THEN Num(ValueAt(data, i)) ELSE NotANumber
ProrateAssignmentCalled == call.op = "prorate_assignment" /\ result.kind = "ok"

ApartRows ==
    {k \in DOMAIN geometries.rows :
        \A m \in DOMAIN geometries.rows \ {k} :
            Intersection(geometries.rows[k].geom, geometries.rows[m].geom) = {}}

\* C19: the collection returned by close_gaps and resolve_overlaps has the
\* identifiers of the input collection, each once and in the same order, and a
\* geometry that touches no other geometry, so that it can receive nothing,
\* keeps its geometry; also when a geometry takes part in two or more in-scope
\* overlaps of resolve_overlaps.
C19_SameIdentifiersSameOrder ==
    (call.op \in {"close_gaps", "resolve_overlaps"} /\ result.kind = "ok") =>
        /\ IdSeq(result.value) = IdSeq(geometries)
        /\ call.op = "resolve_overlaps" =>
              \A k \in ApartRows :
                  \A r \in Range(ResultRows(geometries.rows[k].id)) :
                      r.geom = geometries.rows[k].geom

====
